---- MODULE Spec2Model ----
(***************************************************************************)
(* A model of metapool/metapool.py: the pooling-volume allocators and the  *)
(* Echo pick-list formatter.                                               *)
(*                                                                         *)
(* numpy float64 values are modelled as exact rationals extended with the  *)
(* IEEE special values NaN and +/-infinity.  numpy arrays are modelled as  *)
(* a shape plus a row-major flat buffer.                                   *)
(***************************************************************************)
EXTENDS Integers, Sequences, FiniteSets, TLC

VARIABLES
    \* format_pooling_echo_pick_list
    vol_sample, max_vol_per_well, dest_plate_shape,
    i, j, running_tot, d, contents, pc,
    \* the value of d at the end of each iteration so far (a history of d)
    d_hist,
    \* compute_shotgun_pooling_values_qpcr
    sample_concs, fracs_arg, sample_fracs, sample_fracs_pass,
    sample_concs_floor, sample_vols, qpc, qrefs,
    \* compute_shotgun_pooling_values_eqvol
    eq_sample_concs, total_vol, per_sample_vol, eq_sample_vols, epc,
    \* estimate_pool_conc_vol
    est_sample_vols, est_sample_concs, total_pmols, est_total_vol,
    pool_conc, ppc,
    \* make_2D_array
    qpcr_df, rows, cols, cp_array, rec, mpc,
    \* compute_qpcr_concentration
    cp_vals, curve_m, curve_b, dil_factor, qpcr_concentration, cpc,
    \* calculate_norm_vol and the water volumes of its caller
    dna_concs, dna_vols, water_vols, npc

pickVars == <<vol_sample, max_vol_per_well, dest_plate_shape,
              i, j, running_tot, d, contents, pc, d_hist>>
qpcrVars == <<sample_concs, fracs_arg, sample_fracs, sample_fracs_pass,
              sample_concs_floor, sample_vols, qpc, qrefs>>
eqvolVars == <<eq_sample_concs, total_vol, per_sample_vol, eq_sample_vols,
               epc>>
poolVars == <<est_sample_vols, est_sample_concs, total_pmols, est_total_vol,
              pool_conc, ppc>>
arrayVars == <<qpcr_df, rows, cols, cp_array, rec, mpc>>
concVars == <<cp_vals, curve_m, curve_b, dil_factor, qpcr_concentration,
              cpc>>
normVars == <<dna_concs, dna_vols, water_vols, npc>>
vars == <<pickVars, qpcrVars, eqvolVars, poolVars, arrayVars, concVars,
          normVars>>

\* the variables of the other functions
notPickVars ==
    <<qpcrVars, eqvolVars, poolVars, arrayVars, concVars, normVars>>
notQpcrVars ==
    <<pickVars, eqvolVars, poolVars, arrayVars, concVars, normVars>>
notEqvolVars ==
    <<pickVars, qpcrVars, poolVars, arrayVars, concVars, normVars>>
notPoolVars ==
    <<pickVars, qpcrVars, eqvolVars, arrayVars, concVars, normVars>>
notArrayVars ==
    <<pickVars, qpcrVars, eqvolVars, poolVars, concVars, normVars>>
notConcVars ==
    <<pickVars, qpcrVars, eqvolVars, poolVars, arrayVars, normVars>>
notNormVars ==
    <<pickVars, qpcrVars, eqvolVars, poolVars, arrayVars, concVars>>

----------------------------------------------------------------------------
(* Bounds of the model                                                     *)

\* largest number of wells of an enumerated volume matrix
MaxWells == 4
\* largest number of wells of an enumerated concentration matrix
MaxQWells == 3
\* largest weight of a well in an enumerated sample_fracs matrix
MaxWeight == 2

----------------------------------------------------------------------------
(* float64: rationals n/d in lowest terms (d > 0), NaN, +inf, -inf         *)

Abs(x) == IF x < 0 THEN -x ELSE x

RECURSIVE GCD(_, _)
GCD(a, b) == IF b = 0 THEN a ELSE GCD(b, a % b)

Rat(n, dd) ==
    LET g == GCD(Abs(n), dd)
    IN  [k |-> "num", n |-> IF n < 0 THEN -((-n) \div g) ELSE n \div g,
         d |-> dd \div g]

Num(n) == [k |-> "num", n |-> n, d |-> 1]
NaN == [k |-> "nan", n |-> 0, d |-> 1]
Inf == [k |-> "inf", n |-> 1, d |-> 1]
NegInf == [k |-> "inf", n |-> -1, d |-> 1]

IsNaN(a) == a.k = "nan"
IsNum(a) == a.k = "num"
Sign(a) == IF a.n > 0 THEN 1 ELSE IF a.n < 0 THEN -1 ELSE 0
SignedInf(s) == IF s > 0 THEN Inf ELSE NegInf

\* a + b
FAdd(a, b) ==
    IF IsNaN(a) \/ IsNaN(b) THEN NaN
    ELSE IF a.k = "inf" /\ b.k = "inf" THEN (IF a.n = b.n THEN a ELSE NaN)
    ELSE IF a.k = "inf" THEN a
    ELSE IF b.k = "inf" THEN b
    ELSE LET g == GCD(a.d, b.d)
         IN  Rat(a.n * (b.d \div g) + b.n * (a.d \div g),
                 (a.d \div g) * b.d)

\* a * b
FMul(a, b) ==
    IF IsNaN(a) \/ IsNaN(b) THEN NaN
    ELSE IF a.k = "inf" \/ b.k = "inf"
         THEN (IF Sign(a) * Sign(b) = 0 THEN NaN
               ELSE SignedInf(Sign(a) * Sign(b)))
    ELSE LET g1 == GCD(Abs(a.n), b.d)
             g2 == GCD(Abs(b.n), a.d)
         IN  Rat((a.n \div g1) * (b.n \div g2), (a.d \div g2) * (b.d \div g1))

\* a / b, numpy semantics: x/0 is +/-inf (a warning, no exception), 0/0 is NaN
FDiv(a, b) ==
    IF IsNaN(a) \/ IsNaN(b) THEN NaN
    ELSE IF b.k = "inf" THEN (IF a.k = "inf" THEN NaN ELSE Num(0))
    ELSE IF a.k = "inf"
         THEN SignedInf(Sign(a) * (IF Sign(b) < 0 THEN -1 ELSE 1))
    ELSE IF b.n = 0 THEN (IF a.n = 0 THEN NaN ELSE SignedInf(Sign(a)))
    ELSE FMul(a, IF b.n < 0 THEN [k |-> "num", n |-> -b.d, d |-> -b.n]
                            ELSE [k |-> "num", n |-> b.d, d |-> b.n])

\* a < b; every comparison with NaN is False
FLt(a, b) ==
    IF IsNaN(a) \/ IsNaN(b) THEN FALSE
    ELSE IF a.k = "inf" THEN a.n < 0 /\ ~(b.k = "inf" /\ b.n < 0)
    ELSE IF b.k = "inf" THEN b.n > 0
    ELSE a.n * b.d < b.n * a.d

FGt(a, b) == FLt(b, a)

FLe(a, b) == IF IsNaN(a) \/ IsNaN(b) THEN FALSE ELSE ~FLt(b, a)

----------------------------------------------------------------------------
(* numpy arrays: shape <<rows, cols>> and the row-major buffer             *)

Array(nr, nc, flat) == [shape |-> <<nr, nc>>, flat |-> flat]
Size(m) == m.shape[1] * m.shape[2]
\* m[r][c], r and c counted from 0
At(m, r, c) == m.flat[r * m.shape[2] + c + 1]

Shapes(maxWells) ==
    {s \in (1..maxWells) \X (1..maxWells) : s[1] * s[2] <= maxWells}

Arrays(maxWells, values) ==
    UNION {{Array(s[1], s[2], f) : f \in [1..(s[1] * s[2]) -> values]}
           : s \in Shapes(maxWells)}

\* a local name that is not bound yet
Unbound == Array(0, 0, <<>>)

----------------------------------------------------------------------------
(* A function that is not being called                                     *)

\* the formatter is not running
PickIdle ==
    /\ vol_sample = Unbound
    /\ max_vol_per_well = Num(0)
    /\ dest_plate_shape = <<0, 0>>
    /\ i = 0
    /\ j = 0
    /\ running_tot = Num(0)
    /\ d = 0
    /\ contents = <<>>
    /\ d_hist = <<>>
    /\ pc = "idle"

\* the allocator is not running
QpcrIdle ==
    /\ sample_concs = Unbound
    /\ fracs_arg = Unbound
    /\ sample_fracs = Unbound
    /\ sample_fracs_pass = Unbound
    /\ sample_concs_floor = Unbound
    /\ sample_vols = Unbound
    /\ qrefs = <<>>
    /\ qpc = "idle"

\* the equal-volume allocator is not running
EqvolIdle ==
    /\ eq_sample_concs = Unbound
    /\ total_vol = Num(0)
    /\ per_sample_vol = Num(0)
    /\ eq_sample_vols = Unbound
    /\ epc = "idle"

\* the pool estimator is not running
PoolIdle ==
    /\ est_sample_vols = Unbound
    /\ est_sample_concs = Unbound
    /\ total_pmols = Unbound
    /\ est_total_vol = Num(0)
    /\ pool_conc = Num(0)
    /\ ppc = "idle"

\* make_2D_array is not running
ArrayIdle ==
    /\ qpcr_df = <<>>
    /\ rows = 0
    /\ cols = 0
    /\ cp_array = Unbound
    /\ rec = 0
    /\ mpc = "idle"

\* compute_qpcr_concentration is not running
ConcIdle ==
    /\ cp_vals = Unbound
    /\ curve_m = Num(0)
    /\ curve_b = Num(0)
    /\ dil_factor = Num(0)
    /\ qpcr_concentration = Unbound
    /\ cpc = "idle"

\* the DNA normalization is not running
NormIdle ==
    /\ dna_concs = Unbound
    /\ dna_vols = Unbound
    /\ water_vols = Unbound
    /\ npc = "idle"

----------------------------------------------------------------------------
(* Text: a Python str is the sequence of its characters                    *)

Upper == <<"A", "B", "C", "D", "E", "F", "G", "H", "I", "J", "K", "L", "M",
           "N", "O", "P", "Q", "R", "S", "T", "U", "V", "W", "X", "Y", "Z">>
\* the ASCII characters that follow 'Z'
AfterZ == <<"[", "backslash", "]", "^", "_", "backquote">>

\* chr(ord('A') + n)
ChrFromA(n) ==
    IF n < 26 THEN Upper[n + 1]
    ELSE IF n < 32 THEN AfterZ[n - 25]
    ELSE "a"

Digit == <<"0", "1", "2", "3", "4", "5", "6", "7", "8", "9">>

\* "%d" % n for n >= 0
RECURSIVE FmtD(_)
FmtD(n) == IF n < 10 THEN <<Digit[n + 1]>>
           ELSE FmtD(n \div 10) \o <<Digit[(n % 10) + 1]>>

\* "%s%d" % (letter, n)
FmtSD(letter, n) == <<letter>> \o FmtD(n)

\* "%.2f" % x for x >= 0: x rounded to hundredths; NaN prints as "nan"
Fmt2f(x) ==
    IF IsNaN(x) THEN <<"n", "a", "n">>
    ELSE IF x.k = "inf" THEN <<"i", "n", "f">>
    ELSE LET h == (200 * x.n + x.d) \div (2 * x.d)
         IN  FmtD(h \div 100) \o <<".">>
             \o <<Digit[((h % 100) \div 10) + 1], Digit[(h % 10) + 1]>>

----------------------------------------------------------------------------
(* format_pooling_echo_pick_list                                           *)

Header == <<"Source Plate Name", "Source Plate Type", "Source Well",
            "Concentration", "Transfer Volume", "Destination Plate Name",
            "Destination Well">>

\* the column written as counted from 0
WellNameFromZero(r, c) == FmtSD(ChrFromA(r), c)

\* well_name = "%s%d" % (chr(ord('A') + i), j+1)
WellName(r, c) == FmtSD(ChrFromA(r), c + 1)

\* a transfer that reaches the maximum exactly counted as exceeding it
ExceedsOrReaches(tot, v, maxv) == FLe(maxv, FAdd(tot, v))

\* the test that the transfer would exceed the total volume per well
Exceeds(tot, v, maxv) == FGt(FAdd(tot, v), maxv)

\* the letter taken from the columns and the number from the rows
DestNameShapeSwapped(dd, shape) ==
    FmtSD(ChrFromA(dd \div shape[2]), dd % shape[1])

\* dest = "%s%d" % (chr(ord('A') + int(np.floor(d/shape[0]))), d % shape[1])
DestName(dd, shape) == FmtSD(ChrFromA(dd \div shape[1]), dd % shape[2])

\* one line of the pick list, before ",".join
Line(well_name, val, dest) ==
    [plate |-> "1", type |-> "384LDV_AQ_B2_HT", well |-> well_name,
     conc |-> "", val |-> val, dplate |-> "NormalizedDNA", dest |-> dest]

\* volumes of the enumerated matrices (nL)
VolChoices == {NaN, Num(0), Num(5), Num(10), Num(30)}
MaxVolChoices == {Num(10), Num(26)}
DestShapeChoices == {<<16, 24>>, <<2, 3>>}

\* the inputs of test_format_pooling_echo_pick_list and of
\* test_format_pooling_echo_pick_list_nan
TestVols ==
    Array(1, 6, <<Num(10), Num(10), Num(5), Num(5), Num(10), Num(10)>>)
TestVolsNan ==
    Array(1, 6, <<Num(10), Num(10), NaN, Num(5), Num(10), Num(10)>>)
\* one full row of a 384-well plate, every transfer filling a destination
RowVols == Array(1, 24, [k \in 1..24 |-> Num(20)])

PickInputs ==
    (Arrays(MaxWells, VolChoices) \X MaxVolChoices \X DestShapeChoices)
    \cup {<<TestVols, Num(26), <<16, 24>> >>,
          <<TestVolsNan, Num(26), <<16, 24>> >>,
          <<RowVols, Num(26), <<16, 24>> >>}

PickInit ==
    \E in \in PickInputs :
        /\ vol_sample = in[1]
        /\ max_vol_per_well = in[2]
        /\ dest_plate_shape = in[3]
        /\ contents = <<Header>>
        /\ d_hist = <<>>
        /\ running_tot = Num(0)
        /\ d = 1
        /\ i = 0
        /\ j = 0
        /\ pc = "loop"
        /\ QpcrIdle /\ EqvolIdle /\ PoolIdle /\ ArrayIdle /\ ConcIdle
        /\ NormIdle

\* the total carried over to the next destination
RollStepKeepsTotal(tot, dd, v, maxv) ==
    IF Exceeds(tot, v, maxv)
    THEN [tot |-> FAdd(tot, v), d |-> dd + 1]
    ELSE [tot |-> FAdd(tot, v), d |-> dd]

\* the destination index advanced twice
RollStepSkipsIndex(tot, dd, v, maxv) ==
    IF Exceeds(tot, v, maxv)
    THEN [tot |-> v, d |-> dd + 2]
    ELSE [tot |-> FAdd(tot, v), d |-> dd]

\* lines 183-187: the running total and the destination index after a
\* transfer of volume v
RollStep(tot, dd, v, maxv) ==
    IF Exceeds(tot, v, maxv)
    THEN [tot |-> v, d |-> dd + 1]
    ELSE [tot |-> FAdd(tot, v), d |-> dd]

\* the body of the two nested loops, for the well (i, j)
PickIter ==
    /\ pc = "loop"
    /\ i < vol_sample.shape[1]
    /\ LET v == At(vol_sample, i, j)
           st == RollStep(running_tot, d, v, max_vol_per_well)
       IN  /\ d' = st.d
           /\ running_tot' = st.tot
           /\ contents' = Append(contents,
                  Line(WellName(i, j), Fmt2f(v),
                       DestName(st.d, dest_plate_shape)))
           /\ d_hist' = Append(d_hist, st.d)
    /\ IF j + 1 < vol_sample.shape[2]
       THEN i' = i /\ j' = j + 1
       ELSE i' = i + 1 /\ j' = 0
    /\ UNCHANGED <<vol_sample, max_vol_per_well, dest_plate_shape, pc>>
    /\ UNCHANGED notPickVars

\* return "\n".join(contents)
PickReturn ==
    /\ pc = "loop"
    /\ i >= vol_sample.shape[1]
    /\ pc' = "done"
    /\ UNCHANGED <<vol_sample, max_vol_per_well, dest_plate_shape,
                   i, j, running_tot, d, contents, d_hist>>
    /\ UNCHANGED notPickVars

PickNext == PickIter \/ PickReturn

SpecPick == PickInit /\ [][PickNext]_vars

----------------------------------------------------------------------------
(* compute_shotgun_pooling_values_qpcr                                     *)

\* the defaults of the keyword arguments
min_conc == 10
floor_conc == 50
total_nmol == Rat(1, 100)

\* sample_fracs=None
None == [shape |-> <<>>, flat |-> <<>>]
\* the sum of the first n entries of a buffer
RECURSIVE FSum(_, _)
FSum(flat, n) == IF n = 0 THEN Num(0) ELSE FAdd(FSum(flat, n - 1), flat[n])

\* m.sum()
ArraySum(m) == FSum(m.flat, Len(m.flat))

\* np.ones(sample_concs.shape) / sample_concs.size
DefaultFracs(concs) ==
    [shape |-> concs.shape,
     flat |-> [k \in 1..Len(concs.flat) |-> FDiv(Num(1), Num(Size(concs)))]]

\* the copy of sample_fracs with [sample_concs <= min_conc] = 0
PassMask(fracs, concs) ==
    [shape |-> fracs.shape,
     flat |-> [k \in 1..Len(fracs.flat) |->
                 IF FLe(concs.flat[k], Num(min_conc)) THEN Num(0)
                 ELSE fracs.flat[k]]]

\* the renormalization left out
RenormalizeSkipped(fp) == fp

\* sample_fracs_pass *= 1/sample_fracs_pass.sum()
Renormalize(fp) ==
    LET scale == FDiv(Num(1), ArraySum(fp))
    IN  [shape |-> fp.shape,
         flat |-> [k \in 1..Len(fp.flat) |-> FMul(fp.flat[k], scale)]]

\* the concentrations left as they are
FloorConcsSkipped(concs) == concs

\* the copy of sample_concs with [sample_concs < floor_conc] = floor_conc
FloorConcs(concs) ==
    [shape |-> concs.shape,
     flat |-> [k \in 1..Len(concs.flat) |->
                 IF FLt(concs.flat[k], Num(floor_conc)) THEN Num(floor_conc)
                 ELSE concs.flat[k]]]

\* every well divided by the concentration of the first well
RawVolsByFirstWell(fp, cf) ==
    [shape |-> fp.shape,
     flat |-> [k \in 1..Len(fp.flat) |->
                 FDiv(FMul(total_nmol, fp.flat[k]), cf.flat[1])]]

\* the division by the concentration left out
RawVolsWithoutConc(fp, cf) ==
    [shape |-> fp.shape,
     flat |-> [k \in 1..Len(fp.flat) |-> FMul(total_nmol, fp.flat[k])]]

\* (total_nmol * sample_fracs_pass) / sample_concs_floor
RawVols(fp, cf) ==
    [shape |-> fp.shape,
     flat |-> [k \in 1..Len(fp.flat) |->
                 FDiv(FMul(total_nmol, fp.flat[k]), cf.flat[k])]]

\* sample_vols *= 10**9
ToNanoliters(vols) ==
    [shape |-> vols.shape,
     flat |-> [k \in 1..Len(vols.flat) |->
                 FMul(vols.flat[k], Num(1000000000))]]

\* concentrations of the enumerated matrices (nM): missing, at min_conc,
\* between min_conc and floor_conc, above floor_conc
ConcChoices == {NaN, Num(10), Num(40), Num(200)}

\* the input of test_compute_shotgun_pooling_values_qpcr
TestConcs ==
    Array(2, 3, <<Num(1), Num(12), Num(400), Num(200), Num(40), Num(1)>>)

RECURSIVE IntSum(_, _)
IntSum(w, n) == IF n = 0 THEN 0 ELSE IntSum(w, n - 1) + w[n]

\* target fractions of the given shape that sum to 1: the wells weighted
\* 0..MaxWeight, not all 0
FracArrays(shape) ==
    LET n == shape[1] * shape[2]
    IN  {[shape |-> shape,
          flat |-> [k \in 1..n |-> Rat(w[k], IntSum(w, n))]]
         : w \in {x \in [1..n -> 0..MaxWeight] : IntSum(x, n) > 0}}

\* the uniform fractions of every shape other than the given one
MismatchedFracs(shape) ==
    {[shape |-> s,
      flat |-> [k \in 1..(s[1] * s[2]) |-> FDiv(Num(1), Num(s[1] * s[2]))]]
     : s \in Shapes(MaxQWells) \ {shape}}

\* the objects that the names of the function can be bound to: the two
\* arrays of the caller, and any array created during the call
CallerConcs == "caller sample_concs"
CallerFracs == "caller sample_fracs"
Fresh == "new array"

\* a.copy() handing back the object it was called on
NdCopyAliased(obj) == obj

\* a.copy(): a new array
NdCopy(obj) == Fresh

\* the value of the object `obj` after an in-place store of `new` through a
\* name bound to the object `target`
Stored(obj, target, old, new) == IF target = obj THEN new ELSE old

QpcrInit ==
    /\ \/ /\ sample_concs \in Arrays(MaxQWells, ConcChoices)
          /\ fracs_arg \in {None} \cup FracArrays(sample_concs.shape)
                               \cup MismatchedFracs(sample_concs.shape)
       \/ /\ sample_concs = TestConcs
          /\ fracs_arg = None
    /\ sample_fracs = fracs_arg
    /\ sample_fracs_pass = Unbound
    /\ sample_concs_floor = Unbound
    /\ sample_vols = Unbound
    /\ qrefs = [sample_fracs |-> CallerFracs, sample_fracs_pass |-> "unbound",
                sample_concs_floor |-> "unbound", sample_vols |-> "unbound"]
    /\ qpc = "start"
    /\ PickIdle /\ EqvolIdle /\ PoolIdle /\ ArrayIdle /\ ConcIdle
    /\ NormIdle

\* lines 100-101
QDefault ==
    /\ qpc = "start"
    /\ IF sample_fracs = None
       THEN /\ sample_fracs' = DefaultFracs(sample_concs)
            /\ qrefs' = [qrefs EXCEPT !.sample_fracs = Fresh]
       ELSE UNCHANGED <<sample_fracs, qrefs>>
    /\ qpc' = "mask"
    /\ UNCHANGED <<sample_concs, fracs_arg, sample_fracs_pass,
                   sample_concs_floor, sample_vols>>
    /\ UNCHANGED notQpcrVars

\* lines 104-105
QMask ==
    /\ qpc = "mask"
    /\ sample_fracs.shape = sample_concs.shape
    /\ LET obj == NdCopy(qrefs.sample_fracs)
           new == PassMask(sample_fracs, sample_concs)
       IN  /\ sample_fracs_pass' = new
           /\ qrefs' = [qrefs EXCEPT !.sample_fracs_pass = obj]
           /\ sample_fracs' = Stored(qrefs.sample_fracs, obj, sample_fracs, new)
           /\ fracs_arg' = Stored(CallerFracs, obj, fracs_arg, new)
    /\ qpc' = "renorm"
    /\ UNCHANGED <<sample_concs, sample_concs_floor, sample_vols>>
    /\ UNCHANGED notQpcrVars

\* line 105 when the boolean mask sample_concs <= min_conc has another shape
\* than sample_fracs_pass: the indexing raises IndexError
QMaskError ==
    /\ qpc = "mask"
    /\ sample_fracs.shape # sample_concs.shape
    /\ sample_fracs_pass' = sample_fracs
    /\ qrefs' = [qrefs EXCEPT !.sample_fracs_pass = NdCopy(qrefs.sample_fracs)]
    /\ qpc' = "error"
    /\ UNCHANGED <<sample_concs, fracs_arg, sample_fracs,
                   sample_concs_floor, sample_vols>>
    /\ UNCHANGED notQpcrVars

\* line 108
QRenorm ==
    /\ qpc = "renorm"
    /\ LET obj == qrefs.sample_fracs_pass
           new == Renormalize(sample_fracs_pass)
       IN  /\ sample_fracs_pass' = new
           /\ sample_fracs' = Stored(qrefs.sample_fracs, obj, sample_fracs, new)
           /\ fracs_arg' = Stored(CallerFracs, obj, fracs_arg, new)
    /\ qpc' = "floor"
    /\ UNCHANGED <<sample_concs, sample_concs_floor, sample_vols, qrefs>>
    /\ UNCHANGED notQpcrVars

\* lines 111-112
QFloor ==
    /\ qpc = "floor"
    /\ LET obj == NdCopy(CallerConcs)
           new == FloorConcs(sample_concs)
       IN  /\ sample_concs_floor' = new
           /\ qrefs' = [qrefs EXCEPT !.sample_concs_floor = obj]
           /\ sample_concs' = Stored(CallerConcs, obj, sample_concs, new)
    /\ qpc' = "vols"
    /\ UNCHANGED <<fracs_arg, sample_fracs, sample_fracs_pass, sample_vols>>
    /\ UNCHANGED notQpcrVars

\* line 115
QVols ==
    /\ qpc = "vols"
    /\ sample_vols' = RawVols(sample_fracs_pass, sample_concs_floor)
    /\ qrefs' = [qrefs EXCEPT !.sample_vols = Fresh]
    /\ qpc' = "convert"
    /\ UNCHANGED <<sample_concs, fracs_arg, sample_fracs,
                   sample_fracs_pass, sample_concs_floor>>
    /\ UNCHANGED notQpcrVars

\* lines 118-120
QConvert ==
    /\ qpc = "convert"
    /\ sample_vols' = ToNanoliters(sample_vols)
    /\ qpc' = "done"
    /\ UNCHANGED <<sample_concs, fracs_arg, sample_fracs,
                   sample_fracs_pass, sample_concs_floor, qrefs>>
    /\ UNCHANGED notQpcrVars

QpcrNext ==
    QDefault \/ QMask \/ QMaskError \/ QRenorm \/ QFloor \/ QVols \/ QConvert

SpecQpcr == QpcrInit /\ [][QpcrNext]_vars

\* largest number of wells of a matrix whose call is compared with the calls
\* on every other matrix of its shape
MaxPairWells == 2

\* the calls that are compared with one another: as QpcrInit, on the
\* matrices of up to MaxPairWells wells
QpcrPairInit ==
    /\ sample_concs \in Arrays(MaxPairWells, ConcChoices)
    /\ fracs_arg \in {None} \cup FracArrays(sample_concs.shape)
                         \cup MismatchedFracs(sample_concs.shape)
    /\ sample_fracs = fracs_arg
    /\ sample_fracs_pass = Unbound
    /\ sample_concs_floor = Unbound
    /\ sample_vols = Unbound
    /\ qrefs = [sample_fracs |-> CallerFracs, sample_fracs_pass |-> "unbound",
                sample_concs_floor |-> "unbound", sample_vols |-> "unbound"]
    /\ qpc = "start"
    /\ PickIdle /\ EqvolIdle /\ PoolIdle /\ ArrayIdle /\ ConcIdle
    /\ NormIdle

SpecQpcrPair == QpcrPairInit /\ [][QpcrNext]_vars

----------------------------------------------------------------------------
(* compute_shotgun_pooling_values_eqvol                                    *)

\* a Python number: an int or a float
PyInt(n) == [t |-> "int", v |-> Num(n)]
PyFloat(x) == [t |-> "float", v |-> x]

\* x / n between two ints taken as the floor division
FloorDivInts(x, n) ==
    IF x.t = "int" THEN Num(x.v.n \div n) ELSE FDiv(x.v, Num(n))

\* x / n for a Python number x and an int n: the true division
TrueDiv(x, n) == FDiv(x.v, Num(n))

\* (total_vol / sample_concs.size) * 1000.0
PerSampleVol(tv, size) == FMul(TrueDiv(tv, size), Num(1000))

\* np.zeros(shape) + per_sample_vol
FillVols(shape, psv) ==
    [shape |-> shape,
     flat |-> [k \in 1..(shape[1] * shape[2]) |-> FAdd(Num(0), psv)]]

\* what compute_shotgun_pooling_values_eqvol(concs, tv) returns
EqvolResult(concs, tv) == FillVols(concs.shape, PerSampleVol(tv, Size(concs)))

\* total volumes to pool (uL): the float and the int of the tests, an int
\* that the well counts do not all divide, a fractional float
TotalVolChoices == {PyFloat(Num(60)), PyInt(60), PyInt(50), PyFloat(Rat(5, 2))}

\* a matrix of the shape of the tests' qpcr_conc, every Cp missing
AllNanPlate == Array(3, 4, [k \in 1..12 |-> NaN])

EqvolInit ==
    /\ eq_sample_concs \in Arrays(MaxQWells, ConcChoices) \cup {AllNanPlate}
    /\ total_vol \in TotalVolChoices
    /\ per_sample_vol = Num(0)
    /\ eq_sample_vols = Unbound
    /\ epc = "start"
    /\ PickIdle /\ QpcrIdle /\ PoolIdle /\ ArrayIdle /\ ConcIdle
    /\ NormIdle

\* line 52
EqPerSampleVol ==
    /\ epc = "start"
    /\ per_sample_vol' = PerSampleVol(total_vol, Size(eq_sample_concs))
    /\ epc' = "fill"
    /\ UNCHANGED <<eq_sample_concs, total_vol, eq_sample_vols>>
    /\ UNCHANGED notEqvolVars

\* lines 54-56
EqSampleVols ==
    /\ epc = "fill"
    /\ eq_sample_vols' = FillVols(eq_sample_concs.shape, per_sample_vol)
    /\ epc' = "done"
    /\ UNCHANGED <<eq_sample_concs, total_vol, per_sample_vol>>
    /\ UNCHANGED notEqvolVars

EqvolNext == EqPerSampleVol \/ EqSampleVols

SpecEqvol == EqvolInit /\ [][EqvolNext]_vars

----------------------------------------------------------------------------
(* estimate_pool_conc_vol                                                  *)

\* largest number of wells of an enumerated matrix of the pool estimator
MaxPWells == 3

\* nl_scalar = 10**-9
nl_scalar == Rat(1, 1000000000)

\* numpy broadcasting: two shapes are compatible when, on every axis, the
\* lengths are equal or one of them is 1
Broadcastable(s, t) ==
    \A x \in 1..2 : s[x] = t[x] \/ s[x] = 1 \/ t[x] = 1

BroadcastShape(s, t) ==
    <<IF s[1] > t[1] THEN s[1] ELSE t[1], IF s[2] > t[2] THEN s[2] ELSE t[2]>>

\* the entry (r, c) of the array a stretched along its axes of length 1
BroadcastAt(a, r, c) ==
    At(a, IF a.shape[1] = 1 THEN 0 ELSE r, IF a.shape[2] = 1 THEN 0 ELSE c)

\* the concentrations taken without their volumes
NpMultiplyLeftOnly(a, b) ==
    LET sh == BroadcastShape(a.shape, b.shape)
    IN  [shape |-> sh,
         flat |-> [k \in 1..(sh[1] * sh[2]) |->
                     BroadcastAt(a, (k - 1) \div sh[2], (k - 1) % sh[2])]]

\* np.multiply(a, b)
NpMultiply(a, b) ==
    LET sh == BroadcastShape(a.shape, b.shape)
    IN  [shape |-> sh,
         flat |-> [k \in 1..(sh[1] * sh[2]) |->
                     FMul(BroadcastAt(a, (k - 1) \div sh[2], (k - 1) % sh[2]),
                          BroadcastAt(b, (k - 1) \div sh[2], (k - 1) % sh[2]))]]

\* a * x for an array a and a scalar x
NpScale(a, x) ==
    [shape |-> a.shape, flat |-> [k \in 1..Len(a.flat) |-> FMul(a.flat[k], x)]]

\* the pool concentration of a pool of no volume reported as 0
PoolConcZeroIfEmpty(pmols, tvol) ==
    IF tvol = Num(0) THEN Num(0) ELSE FDiv(pmols, FMul(tvol, nl_scalar))

\* the total volume left in nanoliters
PoolConcPerNanoliter(pmols, tvol) == FDiv(pmols, tvol)

\* total_pmols.sum() / (total_vol * nl_scalar)
PoolConc(pmols, tvol) == FDiv(pmols, FMul(tvol, nl_scalar))

\* volumes (nL) and concentrations (nM) of the enumerated matrices
PoolVolChoices == {Num(0), Num(5), Num(10)}
PoolConcChoices == {NaN, Num(10), Num(200)}

\* every pair of enumerated matrices, of the same shape or not; the result
\* of the equal-volume allocator with its concentrations, as in
\* test_estimate_pool_conc_vol
PoolInputs ==
    (Arrays(MaxPWells, PoolVolChoices) \X Arrays(MaxPWells, PoolConcChoices))
    \cup {<<EqvolResult(c, tv), c>> :
            c \in Arrays(MaxPWells, PoolConcChoices) \cup {TestConcs},
            tv \in TotalVolChoices}

PoolInit ==
    \E in \in PoolInputs :
        /\ est_sample_vols = in[1]
        /\ est_sample_concs = in[2]
        /\ total_pmols = Unbound
        /\ est_total_vol = Num(0)
        /\ pool_conc = Num(0)
        /\ ppc = "pmols"
        /\ PickIdle /\ QpcrIdle /\ EqvolIdle /\ ArrayIdle /\ ConcIdle
        /\ NormIdle

\* line 144
PoolPmols ==
    /\ ppc = "pmols"
    /\ Broadcastable(est_sample_concs.shape, est_sample_vols.shape)
    /\ total_pmols' = NpScale(NpMultiply(est_sample_concs, est_sample_vols),
                              nl_scalar)
    /\ ppc' = "vol"
    /\ UNCHANGED <<est_sample_vols, est_sample_concs, est_total_vol, pool_conc>>
    /\ UNCHANGED notPoolVars

\* line 144 on shapes that cannot be broadcast: np.multiply raises ValueError
PoolPmolsError ==
    /\ ppc = "pmols"
    /\ ~Broadcastable(est_sample_concs.shape, est_sample_vols.shape)
    /\ ppc' = "error"
    /\ UNCHANGED <<est_sample_vols, est_sample_concs, total_pmols,
                   est_total_vol, pool_conc>>
    /\ UNCHANGED notPoolVars

\* line 147
PoolTotalVol ==
    /\ ppc = "vol"
    /\ est_total_vol' = ArraySum(est_sample_vols)
    /\ ppc' = "conc"
    /\ UNCHANGED <<est_sample_vols, est_sample_concs, total_pmols, pool_conc>>
    /\ UNCHANGED notPoolVars

\* lines 151-153
PoolEstimate ==
    /\ ppc = "conc"
    /\ pool_conc' = PoolConc(ArraySum(total_pmols), est_total_vol)
    /\ ppc' = "done"
    /\ UNCHANGED <<est_sample_vols, est_sample_concs, total_pmols,
                   est_total_vol>>
    /\ UNCHANGED notPoolVars

PoolNext == PoolPmols \/ PoolPmolsError \/ PoolTotalVol \/ PoolEstimate

SpecPool == PoolInit /\ [][PoolNext]_vars

----------------------------------------------------------------------------
(* make_2D_array                                                           *)

\* largest number of records of an enumerated dataframe
MaxRecords == 2

Lower == <<"a", "b", "c", "d", "e", "f", "g", "h", "i", "j", "k", "l", "m",
           "n", "o", "p", "q", "r", "s", "t", "u", "v", "w", "x", "y", "z">>

\* str.upper of one character
StrUpper(ch) ==
    IF \E x \in 1..26 : Lower[x] = ch
    THEN Upper[CHOOSE x \in 1..26 : Lower[x] = ch]
    ELSE ch

\* ord(ch) - ord('A') for the characters from 'A' to the backquote
OrdFromA(ch) == CHOOSE n \in 0..31 : ChrFromA(n) = ch

\* int(s) of a string of decimal digits
RECURSIVE IntOfDigits(_)
IntOfDigits(str) ==
    IF Len(str) = 0 THEN 0
    ELSE 10 * IntOfDigits(SubSeq(str, 1, Len(str) - 1))
         + (CHOOSE n \in 0..9 : Digit[n + 1] = str[Len(str)])

\* row = ord(str.upper(label[0])) - ord('A')
ParseRow(label) == OrdFromA(StrUpper(label[1]))

\* the column read from the first digit of the label only
ParseColFirstDigit(label) == IntOfDigits(<<label[2]>>) - 1

\* col = int(label[1:]) - 1
ParseCol(label) == IntOfDigits(Tail(label)) - 1

\* an entry of np.empty(..., dtype=object) that was never stored
NoneCell == [k |-> "none", n |-> 0, d |-> 1]

\* the position that the index ix selects on an axis of length n: negative
\* indices count from the end; -1 stands for IndexError
NpIndex(ix, n) ==
    IF 0 <= ix /\ ix < n THEN ix
    ELSE IF -n <= ix /\ ix < 0 THEN ix + n
    ELSE -1

\* the dataframes of test_make_2D_array
TestDf1 ==
    <<[Pos |-> <<"A", "1">>, Cp |-> Num(12)], [Pos |-> <<"A", "2">>, Cp |-> Num(0)],
      [Pos |-> <<"A", "3">>, Cp |-> Num(5)], [Pos |-> <<"A", "4">>, Cp |-> NaN]>>
TestDf2 ==
    <<[Pos |-> <<"A", "1">>, Cp |-> Num(12)], [Pos |-> <<"A", "2">>, Cp |-> Num(0)],
      [Pos |-> <<"A", "3">>, Cp |-> Num(1)], [Pos |-> <<"A", "4">>, Cp |-> NaN],
      [Pos |-> <<"B", "1">>, Cp |-> Num(12)], [Pos |-> <<"B", "2">>, Cp |-> Num(0)],
      [Pos |-> <<"B", "3">>, Cp |-> Num(5)], [Pos |-> <<"B", "4">>, Cp |-> NaN]>>

\* one record per well of a 384-well plate, labelled as the pick list labels
\* its source wells, each with a Cp of its own
FullPlateDf ==
    [x \in 1..384 |->
        [Pos |-> WellName((x - 1) \div 24, (x - 1) % 24), Cp |-> Num(x)]]

\* the records of the enumerated dataframes: the labels of a 3 x 4 corner of
\* the plate as the pick list writes them, two labels in lower case, and a
\* Cp that is present or missing
SmallRecords ==
    {[Pos |-> lab, Cp |-> cp] :
        lab \in {WellName(r, c) : r \in 0..2, c \in 0..3}
                \cup {<<"a", "1">>, <<"b", "2">>},
        cp \in {Num(12), NaN}}

SmallDfs == UNION {[1..n -> SmallRecords] : n \in 0..MaxRecords}

ArrayInputs ==
    {<<TestDf1, 1, 4>>, <<TestDf2, 2, 4>>, <<FullPlateDf, 16, 24>>}
    \cup {<<df, 2, 3>> : df \in SmallDfs}

\* line 291
ArrayInit ==
    \E in \in ArrayInputs :
        /\ qpcr_df = in[1]
        /\ rows = in[2]
        /\ cols = in[3]
        /\ cp_array = Array(in[2], in[3], [x \in 1..(in[2] * in[3]) |-> NoneCell])
        /\ rec = 0
        /\ mpc = "loop"
        /\ PickIdle /\ QpcrIdle /\ EqvolIdle /\ PoolIdle /\ ConcIdle
        /\ NormIdle

\* lines 295-298 for the next record, the store landing in the array
ArrayStore ==
    /\ mpc = "loop"
    /\ rec < Len(qpcr_df)
    /\ LET record == qpcr_df[rec + 1]
           row == NpIndex(ParseRow(record.Pos), rows)
           col == NpIndex(ParseCol(record.Pos), cols)
       IN  /\ row # -1 /\ col # -1
           /\ cp_array' = [cp_array EXCEPT !.flat[row * cols + col + 1] = record.Cp]
    /\ rec' = rec + 1
    /\ UNCHANGED <<qpcr_df, rows, cols, mpc>>
    /\ UNCHANGED notArrayVars

\* lines 295-298 for the next record, row or col outside the array: the
\* store raises IndexError
ArrayStoreError ==
    /\ mpc = "loop"
    /\ rec < Len(qpcr_df)
    /\ LET record == qpcr_df[rec + 1]
       IN  \/ NpIndex(ParseRow(record.Pos), rows) = -1
           \/ NpIndex(ParseCol(record.Pos), cols) = -1
    /\ mpc' = "error"
    /\ UNCHANGED <<qpcr_df, rows, cols, cp_array, rec>>
    /\ UNCHANGED notArrayVars

\* line 300
ArrayReturn ==
    /\ mpc = "loop"
    /\ rec = Len(qpcr_df)
    /\ mpc' = "done"
    /\ UNCHANGED <<qpcr_df, rows, cols, cp_array, rec>>
    /\ UNCHANGED notArrayVars

ArrayNext == ArrayStore \/ ArrayStoreError \/ ArrayReturn

SpecArray == ArrayInit /\ [][ArrayNext]_vars

----------------------------------------------------------------------------
(* compute_qpcr_concentration                                              *)

\* largest number of wells of an enumerated Cp matrix
MaxCWells == 2
\* the enumerated Cp values give the exponents -MaxExp..MaxExp
MaxExp == 3

\* a - b
FSub(a, b) == FAdd(a, FMul(Num(-1), b))

RECURSIVE IntPow(_, _)
IntPow(base, n) == IF n = 0 THEN 1 ELSE base * IntPow(base, n - 1)

\* np.power(10, x) for an exponent x that is a whole number, NaN or infinite
Power10(x) ==
    IF IsNaN(x) THEN NaN
    ELSE IF x.k = "inf" THEN (IF x.n > 0 THEN Inf ELSE Num(0))
    ELSE IF x.n >= 0 THEN Num(IntPow(10, x.n))
    ELSE Rat(1, IntPow(10, -x.n))

\* the exponent with the difference taken the other way round
ExponentReversed(cp, mm, bb) == FDiv(FSub(bb, cp), mm)

\* (cp - b) / m
Exponent(cp, mm, bb) == FDiv(FSub(cp, bb), mm)

\* np.power(10, ((cp_vals - b) / m)) * dil_factor / 1000
QpcrConcentration(cps, mm, bb, dil) ==
    [shape |-> cps.shape,
     flat |-> [x \in 1..Len(cps.flat) |->
                 FDiv(FMul(Power10(Exponent(cps.flat[x], mm, bb)), dil),
                      Num(1000))]]

\* the standard curves <<m, b>>: the default one and a second one
CurveChoices == {<<Rat(-3231, 1000), Rat(12059, 1000)>>, <<Num(-2), Num(30)>>}
\* the dilution factors: the default one and no dilution
DilChoices == {Num(25000), Num(1)}

\* the Cp values of a curve whose exponents are whole numbers (for the
\* default curve 2.366, 5.597, 8.828, 12.059, 15.29, 18.521, 21.752), and a
\* missing Cp
CpChoices(mm, bb) ==
    {NaN} \cup {FAdd(bb, FMul(mm, Num(t))) : t \in (-MaxExp)..MaxExp}

ConcInit ==
    \E curve \in CurveChoices :
        /\ curve_m = curve[1]
        /\ curve_b = curve[2]
        /\ dil_factor \in DilChoices
        /\ cp_vals \in Arrays(MaxCWells, CpChoices(curve[1], curve[2]))
        /\ qpcr_concentration = Unbound
        /\ cpc = "start"
        /\ PickIdle /\ QpcrIdle /\ EqvolIdle /\ PoolIdle /\ ArrayIdle
        /\ NormIdle

\* lines 30-32
ConcCompute ==
    /\ cpc = "start"
    /\ qpcr_concentration' =
           QpcrConcentration(cp_vals, curve_m, curve_b, dil_factor)
    /\ cpc' = "done"
    /\ UNCHANGED <<cp_vals, curve_m, curve_b, dil_factor>>
    /\ UNCHANGED notConcVars

ConcNext == ConcCompute

SpecConc == ConcInit /\ [][ConcNext]_vars

----------------------------------------------------------------------------
(* calculate_norm_vol: the fixed-volume DNA + water normalization, and the *)
(* water volumes that its caller derives from the result                   *)

\* largest number of wells of an enumerated DNA concentration matrix
MaxNWells == 2

\* the input mass (ng), the input volume (nL) and the transfer resolution
\* (nL) of test_calculate_norm_vol: 2 ng/uL gives 2500 nL, 7.89 ng/uL gives
\* 632.5 nL, an empty well gives 3500 nL
target_mass == 5
target_volume == 3500
resolution == Rat(5, 2)

\* a missing concentration left as NaN
NanKept(x) == x

\* a missing concentration counts as 0
NanToNum(x) == IF IsNaN(x) THEN Num(0) ELSE x

\* x clamped to [lo, hi]
Clip(x, lo, hi) ==
    IF IsNaN(x) THEN NaN
    ELSE IF FLt(x, lo) THEN lo
    ELSE IF FGt(x, hi) THEN hi
    ELSE x

\* a non-negative number rounded to the nearest whole number, a half to
\* the even one
RoundHalfEven(x) ==
    LET q == x.n \div x.d
        r == x.n - q * x.d
    IN  IF 2 * r < x.d THEN q
        ELSE IF 2 * r > x.d THEN q + 1
        ELSE IF q % 2 = 0 THEN q ELSE q + 1

\* x rounded to a multiple of res
RoundTo(x, res) ==
    IF IsNum(x) THEN FMul(Num(RoundHalfEven(FDiv(x, res))), res) ELSE x

\* the "add sample" volume of one well: target_mass / concentration in
\* nanoliters, clamped to [0, target_volume]
SampleVol(c) ==
    RoundTo(Clip(FMul(FDiv(Num(target_mass), NanToNum(c)), Num(1000)),
                 Num(0), Num(target_volume)),
            resolution)

\* the complementary water volume
WaterVol(v) == FSub(Num(target_volume), v)

\* concentrations (ng/uL): missing, empty, below zero by assay noise, too
\* dilute for the target volume, and measurable
DnaConcChoices == {NaN, Num(0), Num(-1), Num(1), Num(2), Rat(789, 100)}

\* the input of test_calculate_norm_vol
TestDnaConcs == Array(2, 2, <<Num(2), Rat(789, 100), NaN, Num(0)>>)

NormInit ==
    /\ dna_concs \in Arrays(MaxNWells, DnaConcChoices) \cup {TestDnaConcs}
    /\ dna_vols = Unbound
    /\ water_vols = Unbound
    /\ npc = "start"
    /\ PickIdle /\ QpcrIdle /\ EqvolIdle /\ PoolIdle /\ ArrayIdle
    /\ ConcIdle

\* calculate_norm_vol(dna_concs)
NormSampleVols ==
    /\ npc = "start"
    /\ dna_vols' = [shape |-> dna_concs.shape,
                    flat |-> [x \in 1..Len(dna_concs.flat) |->
                                 SampleVol(dna_concs.flat[x])]]
    /\ npc' = "water"
    /\ UNCHANGED <<dna_concs, water_vols>>
    /\ UNCHANGED notNormVars

\* water_vols = target_volume - dna_vols
NormWaterVols ==
    /\ npc = "water"
    /\ water_vols' = [shape |-> dna_vols.shape,
                      flat |-> [x \in 1..Len(dna_vols.flat) |->
                                   WaterVol(dna_vols.flat[x])]]
    /\ npc' = "done"
    /\ UNCHANGED <<dna_concs, dna_vols>>
    /\ UNCHANGED notNormVars

NormNext == NormSampleVols \/ NormWaterVols

SpecNorm == NormInit /\ [][NormNext]_vars

----------------------------------------------------------------------------
(* A call of any of the four core operations: the two allocators, the pool *)
(* estimator and the pick-list formatter                                   *)

CoreInit == PickInit \/ QpcrInit \/ EqvolInit \/ PoolInit

CoreNext == PickNext \/ QpcrNext \/ EqvolNext \/ PoolNext

SpecCore == CoreInit /\ [][CoreNext]_vars

----------------------------------------------------------------------------
(* Properties of format_pooling_echo_pick_list                             *)

\* the transfer records written so far (contents without the header)
Recs == SubSeq(contents, 2, Len(contents))
NDone == Len(contents) - 1
NWells == Size(vol_sample)
Cols == vol_sample.shape[2]

\* the destination wells of the records written so far
Dests == [k \in 1..NDone |-> Recs[k].dest]

\* the running total and destination index after the first n volumes of vols
RECURSIVE RollFold(_, _, _)
RollFold(vols, n, maxv) ==
    IF n = 0 THEN [tot |-> Num(0), d |-> 1]
    ELSE LET st == RollFold(vols, n - 1, maxv)
         IN  RollStep(st.tot, st.d, vols[n], maxv)

NoNaN(m) == \A k \in 1..Len(m.flat) : ~IsNaN(m.flat[k])

\* C1: the wells are visited in row-major order carrying (running_total,
\* destination index) from (0, 1); a well of volume v moves to the next
\* destination and restarts the total at v exactly when running_total + v >
\* max_vol_per_well, otherwise it adds v to the total and keeps the
\* destination; the well's record carries the resulting destination.  The
\* volumes [10,10,5,5,10,10] with maximum 26 go to A1,A1,A1,A2,A2,A2.
C1_Rollover ==
    /\ running_tot = Num(0) /\ d = 1
    /\ [][Len(contents') = Len(contents) + 1 =>
            LET v == vol_sample.flat[Len(contents)]
            IN  /\ IF FGt(FAdd(running_tot, v), max_vol_per_well)
                   THEN d' = d + 1 /\ running_tot' = v
                   ELSE d' = d /\ running_tot' = FAdd(running_tot, v)
                /\ contents'[Len(contents')].dest
                       = <<ChrFromA(d' \div dest_plate_shape[1])>>
                         \o FmtD(d' % dest_plate_shape[2])]_vars
    /\ [](pc = "done" /\ vol_sample = TestVols /\ max_vol_per_well = Num(26)
            => Dests = << <<"A", "1">>, <<"A", "1">>, <<"A", "1">>,
                          <<"A", "2">>, <<"A", "2">>, <<"A", "2">> >>)

C1_Witness ==
    /\ pc = "done" /\ vol_sample = TestVols /\ max_vol_per_well = Num(26)
    /\ d = 2 /\ running_tot = Num(25)

\* C2: a NaN volume counts as zero for the rollover and prints as "0.00",
\* never "nan": the running total and destination index are those of the
\* same volumes with 0 in place of NaN.  The volumes [10,10,NaN,5,10,10]
\* with maximum 26 go to A1,A1,A1,A1,A2,A2.
C2_NanAsZero ==
    LET zeroed == [k \in 1..NWells |->
                     IF IsNaN(vol_sample.flat[k]) THEN Num(0)
                     ELSE vol_sample.flat[k]]
        ref == RollFold(zeroed, NDone, max_vol_per_well)
    IN  /\ \A k \in 1..NDone :
              /\ Recs[k].val # <<"n", "a", "n">>
              /\ IsNaN(vol_sample.flat[k])
                     => Recs[k].val = <<"0", ".", "0", "0">>
        /\ running_tot = ref.tot /\ d = ref.d
        /\ (pc = "done" /\ vol_sample = TestVolsNan
               /\ max_vol_per_well = Num(26))
            => Dests = << <<"A", "1">>, <<"A", "1">>, <<"A", "1">>,
                          <<"A", "1">>, <<"A", "2">>, <<"A", "2">> >>

\* the sum of the volumes of the wells among the first n whose record names
\* the destination dest
RECURSIVE RoutedTo(_, _)
RoutedTo(dest, n) ==
    IF n = 0 THEN Num(0)
    ELSE IF Recs[n].dest = dest
         THEN FAdd(RoutedTo(dest, n - 1), vol_sample.flat[n])
         ELSE RoutedTo(dest, n - 1)

\* C3: for non-negative volumes the transfers routed to one destination well
\* never sum to more than max_vol_per_well.
C3_MaxVolRespected ==
    NoNaN(vol_sample) =>
        \A k \in 1..NDone :
            FLe(RoutedTo(Recs[k].dest, NDone), max_vol_per_well)

\* the labels of the positions of a plate of the given shape
PlateWells(shape) ==
    {<<Upper[r]>> \o FmtD(c) : r \in 1..shape[1], c \in 1..shape[2]}

\* C4: every destination label written for a destination index within the
\* plate's capacity is a position of the destination plate: one of the first
\* plate_rows letters and a column number in 1..plate_columns.
C4_DestIsRealWell ==
    (NDone >= 1 /\ d <= dest_plate_shape[1] * dest_plate_shape[2])
        => Recs[NDone].dest \in PlateWells(dest_plate_shape)

\* C5: after the header there is exactly one record per well, in row-major
\* order: record k (from 0) is for the well (k div C, k mod C), named by
\* the letter 'A' + row and the number column + 1, and the rollover state is
\* the one reached over the same order.
C5_RowMajorRecords ==
    /\ contents[1] = Header
    /\ NDone <= NWells
    /\ pc = "done" => NDone = NWells
    /\ \A k \in 0..(NDone - 1) :
          /\ Recs[k + 1].well = <<Upper[(k \div Cols) + 1]>>
                                 \o FmtD((k % Cols) + 1)
          /\ Recs[k + 1].val = Fmt2f(At(vol_sample, k \div Cols, k % Cols))
    /\ LET st == RollFold(vol_sample.flat, NDone, max_vol_per_well)
       IN  running_tot = st.tot /\ d = st.d

C5_Witness ==
    /\ pc = "done" /\ vol_sample.shape = <<2, 2>>
    /\ Recs[3].well = <<"B", "1">> /\ d = 3

----------------------------------------------------------------------------
(* Properties of compute_shotgun_pooling_values_qpcr                       *)

QN == Len(sample_concs.flat)
Conc(k) == sample_concs.flat[k]
Vol(k) == sample_vols.flat[k]
\* the caller's target fraction of well k: 1/N unless sample_fracs is given
TargetFrac(k) == IF fracs_arg = None THEN Rat(1, QN) ELSE fracs_arg.flat[k]
AboveMin(k) == FGt(Conc(k), Num(min_conc))
AtOrBelowMin(k) == FLe(Conc(k), Num(min_conc))
\* max(conc, floor_conc)
FloorAdjusted(k) ==
    IF FGt(Num(floor_conc), Conc(k)) THEN Num(floor_conc) ELSE Conc(k)

\* the sum of the target fractions of the wells above min_conc among the
\* first n
RECURSIVE FracAbove(_)
FracAbove(n) ==
    IF n = 0 THEN Num(0)
    ELSE IF AboveMin(n) THEN FAdd(FracAbove(n - 1), TargetFrac(n))
         ELSE FracAbove(n - 1)

\* the number of wells above min_conc among the first n
RECURSIVE CountAbove(_)
CountAbove(n) ==
    IF n = 0 THEN 0
    ELSE CountAbove(n - 1) + (IF AboveMin(n) THEN 1 ELSE 0)

\* C6: every well above min_conc gets total_nmol * f' / max(conc,
\* floor_conc) * 10^9, f' its target fraction renormalized to sum to 1 over
\* the wells above min_conc; [[1,12,400],[200,40,1]] with the defaults gives
\* [[0,50000,6250],[12500,50000,0]].
C6_VolumeFormula ==
    qpc = "done" =>
        /\ \A k \in 1..QN :
              AboveMin(k) =>
                  Vol(k) = FMul(FDiv(FMul(total_nmol,
                                          FDiv(TargetFrac(k), FracAbove(QN))),
                                     FloorAdjusted(k)),
                                Num(1000000000))
        /\ sample_concs = TestConcs =>
              sample_vols = Array(2, 3, <<Num(0), Num(50000), Num(6250),
                                          Num(12500), Num(50000), Num(0)>>)

\* C7: when some well is above min_conc, every well at or below min_conc
\* gets volume 0 and every well above min_conc with a positive target
\* fraction gets a positive volume.
C7_ExcludedZeroIncludedPositive ==
    (qpc = "done" /\ \E k \in 1..QN : AboveMin(k)) =>
        \A k \in 1..QN :
            /\ AtOrBelowMin(k) => Vol(k) = Num(0)
            /\ (AboveMin(k) /\ FGt(TargetFrac(k), Num(0)))
                   => FGt(Vol(k), Num(0))

\* C8: when every well is at or below min_conc the renormalization does not
\* divide by zero and the result is the all-zero matrix.
C8_AllFailGivesZeros ==
    (\A k \in 1..QN : AtOrBelowMin(k)) =>
        /\ qpc = "renorm" => ArraySum(sample_fracs_pass) # Num(0)
        /\ qpc = "done" => \A k \in 1..QN : Vol(k) = Num(0)

\* the renormalization has a nonzero divisor: the wells that are not at or
\* below min_conc have a positive target fraction in total
RECURSIVE FracKept(_)
FracKept(n) ==
    IF n = 0 THEN Num(0)
    ELSE IF AtOrBelowMin(n) THEN FracKept(n - 1)
         ELSE FAdd(FracKept(n - 1), TargetFrac(n))

\* C9: every returned volume is a number >= 0; a well whose concentration is
\* NaN gets volume 0 and leaves the other wells' volumes defined.  Stated
\* for the calls whose renormalization does not divide by zero.
C9_VolumesDefined ==
    (qpc = "done" /\ FGt(FracKept(QN), Num(0))) =>
        \A k \in 1..QN :
            /\ IsNum(Vol(k)) /\ FLe(Num(0), Vol(k))
            /\ IsNaN(Conc(k)) => Vol(k) = Num(0)

\* the nanomoles pooled: the sum over the first n wells of volume times
\* floor-adjusted concentration, converted back from nanoliters
RECURSIVE PooledNmol(_)
PooledNmol(n) ==
    IF n = 0 THEN Num(0)
    ELSE FAdd(PooledNmol(n - 1),
              FMul(FMul(Vol(n), FloorAdjusted(n)), Rat(1, 1000000000)))

\* C10 as stated: the nanomoles pooled equal total_nmol times the fraction
\* of the samples that pass the min_conc threshold.  Stated for the calls
\* whose result is defined.
C10_ScaledByPassing ==
    (qpc = "done" /\ NoNaN(sample_concs) /\ FGt(FracAbove(QN), Num(0))) =>
        PooledNmol(QN) = FMul(total_nmol, Rat(CountAbove(QN), QN))

\* C10, amended: the nanomoles pooled equal total_nmol itself, whatever
\* fraction of the samples passes, whenever no concentration is NaN and the
\* wells above min_conc have a positive target fraction in total; in every
\* other case the sum is NaN.
C10_ConservesTotal ==
    qpc = "done" =>
        IF NoNaN(sample_concs) /\ FGt(FracAbove(QN), Num(0))
        THEN PooledNmol(QN) = total_nmol
        ELSE IsNaN(PooledNmol(QN))

C10_Witness ==
    /\ qpc = "done" /\ NoNaN(sample_concs)
    /\ CountAbove(QN) = 1 /\ QN = 3
    /\ PooledNmol(QN) = total_nmol

\* the volumes the allocator returns for the given concentrations and
\* sample_fracs argument
QpcrResult(concs, fracsArg) ==
    LET fracs == IF fracsArg = None THEN DefaultFracs(concs) ELSE fracsArg
    IN  ToNanoliters(RawVols(Renormalize(PassMask(fracs, concs)),
                             FloorConcs(concs)))

BetweenMinAndFloor(k) ==
    FGt(Conc(k), Num(min_conc)) /\ FLt(Conc(k), Num(floor_conc))

\* C11: a well with min_conc < concentration < floor_conc gets exactly the
\* volume it would get at floor_conc with the same target fraction, and no
\* well's volume exceeds total_nmol * f' / floor_conc * 10^9, f' its
\* renormalized fraction.
C11_FloorBoundsVolume ==
    qpc = "done" =>
        \A k \in 1..QN :
            /\ BetweenMinAndFloor(k) =>
                  Vol(k) = QpcrResult(
                               [sample_concs EXCEPT !.flat[k] = Num(floor_conc)],
                               fracs_arg).flat[k]
            /\ ~FGt(Vol(k),
                    FMul(FDiv(FMul(total_nmol, sample_fracs_pass.flat[k]),
                              Num(floor_conc)),
                         Num(1000000000)))

C11_Witness ==
    /\ qpc = "done"
    /\ \E k \in 1..QN : BetweenMinAndFloor(k) /\ FGt(Vol(k), Num(0))
    /\ \E k \in 1..QN : FGt(Conc(k), Num(floor_conc)) /\ FGt(Vol(k), Num(0))

\* the sum of the adjusted fractions of the wells above min_conc among the
\* first n
RECURSIVE AdjustedAbove(_)
AdjustedAbove(n) ==
    IF n = 0 THEN Num(0)
    ELSE IF AboveMin(n)
         THEN FAdd(AdjustedAbove(n - 1), sample_fracs_pass.flat[n])
         ELSE AdjustedAbove(n - 1)

\* C12: with sample_fracs supplied and some well above min_conc, the
\* adjusted fractions are 0 on the excluded wells, sum to 1 over the passing
\* wells and keep the ratio of the supplied fractions of any two passing
\* wells.
C12_ProportionalRedistribution ==
    (/\ qpc \in {"floor", "vols", "convert", "done"}
     /\ fracs_arg # None
     /\ \E k \in 1..QN : AboveMin(k)) =>
        /\ \A k \in 1..QN :
              AtOrBelowMin(k) => sample_fracs_pass.flat[k] = Num(0)
        /\ AdjustedAbove(QN) = Num(1)
        /\ \A a, b \in 1..QN :
              (AboveMin(a) /\ AboveMin(b)) =>
                  FMul(sample_fracs_pass.flat[a], fracs_arg.flat[b])
                      = FMul(sample_fracs_pass.flat[b], fracs_arg.flat[a])

----------------------------------------------------------------------------
(* Properties of compute_shotgun_pooling_values_eqvol                      *)

\* C13: the result has the shape of the input and every well holds the
\* volume total_vol / N * 1000 (N wells), whatever the concentrations are
\* (NaN included) and whether total_vol is an int or a float: N times the
\* volume of a well is total_vol * 1000.
C13_EqualVolumes ==
    epc = "done" =>
        /\ eq_sample_vols.shape = eq_sample_concs.shape
        /\ Len(eq_sample_vols.flat) = Size(eq_sample_concs)
        /\ \A k \in 1..Size(eq_sample_concs) :
              /\ eq_sample_vols.flat[k] = eq_sample_vols.flat[1]
              /\ FMul(eq_sample_vols.flat[k], Num(Size(eq_sample_concs)))
                     = FMul(total_vol.v, Num(1000))

C13_Witness ==
    /\ epc = "done"
    /\ total_vol = PyInt(50)
    /\ Size(eq_sample_concs) = 3
    /\ \E k \in 1..3 : IsNaN(eq_sample_concs.flat[k])
    /\ eq_sample_vols.flat[3] = Rat(50000, 3)

----------------------------------------------------------------------------
(* Properties of estimate_pool_conc_vol                                    *)

\* the two matrices have one shape
SameShape == est_sample_vols.shape = est_sample_concs.shape

\* the sum of volume times concentration over the first n wells
RECURSIVE VolTimesConc(_)
VolTimesConc(n) ==
    IF n = 0 THEN Num(0)
    ELSE FAdd(VolTimesConc(n - 1),
              FMul(est_sample_vols.flat[n], est_sample_concs.flat[n]))

\* C14: pool_volume is the sum of the volumes and pool_concentration is the
\* sum of volume times concentration divided by pool_volume; on the result
\* of the equal-volume allocator for total_vol V the pool volume is V * 1000
\* and the pool concentration is the arithmetic mean of the concentrations.
C14_WeightedAverage ==
    (ppc = "done" /\ SameShape) =>
        /\ est_total_vol = FSum(est_sample_vols.flat, Size(est_sample_vols))
        /\ pool_conc = FDiv(VolTimesConc(Size(est_sample_vols)), est_total_vol)
        /\ \A tv \in TotalVolChoices :
              est_sample_vols = EqvolResult(est_sample_concs, tv) =>
                  /\ est_total_vol = FMul(tv.v, Num(1000))
                  /\ pool_conc = FDiv(ArraySum(est_sample_concs),
                                      Num(Size(est_sample_concs)))

C14_Witness ==
    /\ ppc = "done"
    /\ est_sample_concs = TestConcs
    /\ est_sample_vols = EqvolResult(TestConcs, PyFloat(Num(60)))
    /\ est_total_vol = Num(60000)
    /\ pool_conc = Num(109)

\* every volume is v and every concentration is c
AllWells(v, c) ==
    \A k \in 1..Size(est_sample_vols) :
        est_sample_vols.flat[k] = v /\ est_sample_concs.flat[k] = c

\* C15: when the volumes sum to 0 the call does not raise; it returns the
\* pool volume 0 and a pool concentration that is NaN, never 0.
C15_EmptyPoolIsNaN ==
    (SameShape /\ ArraySum(est_sample_vols) = Num(0)) =>
        /\ ppc # "error"
        /\ ppc = "done" => (est_total_vol = Num(0) /\ IsNaN(pool_conc))

C15_Witness ==
    /\ ppc = "done"
    /\ SameShape
    /\ Size(est_sample_vols) = 2
    /\ AllWells(Num(0), Num(200))
    /\ est_total_vol = Num(0)
    /\ IsNaN(pool_conc)

\* C16: N >= 1 wells, all at the concentration K and pooled with equal
\* positive volumes, give the pool concentration K, whatever N and the
\* volume are.
C16_RoundTrip ==
    (ppc = "done" /\ SameShape) =>
        \A v \in PoolVolChoices, c \in PoolConcChoices :
            (FGt(v, Num(0)) /\ IsNum(c) /\ AllWells(v, c)) => pool_conc = c

C16_Witness ==
    /\ ppc = "done"
    /\ SameShape
    /\ Size(est_sample_vols) = 3
    /\ AllWells(Num(5), Num(200))
    /\ pool_conc = Num(200)

----------------------------------------------------------------------------
(* Arrays of different shapes                                              *)

\* C18: when sample_fracs has another shape than sample_concs the allocator
\* returns nothing, and when sample_vols has another shape than
\* sample_concs the pool estimator returns nothing: the call ends in an
\* error and no result is computed from one input broadcast against the
\* other.  (The estimator is taken on a pool that is not empty and has no
\* missing concentration, where its result is a number.)
C18_MismatchIsAnError ==
    /\ (qpc # "idle" /\ fracs_arg # None
        /\ fracs_arg.shape # sample_concs.shape) => qpc # "done"
    /\ (/\ ppc # "idle"
        /\ ~SameShape
        /\ NoNaN(est_sample_concs)
        /\ FGt(ArraySum(est_sample_vols), Num(0))) => ppc # "done"

----------------------------------------------------------------------------
(* Well labels: format_pooling_echo_pick_list writes, make_2D_array reads  *)

\* the coordinates of a plate of the given size
Coords(nr, nc) == (0..(nr - 1)) \X (0..(nc - 1))

\* C19: for every coordinate (r, c) of the plate (up to 16 x 24), the label
\* the pick list writes for (r, c) is parsed back by make_2D_array to
\* (r, c): the record just read, labelled for (r, c), has its value stored
\* at cp_array[r, c].
C19_LabelRoundTrip ==
    (mpc \in {"loop", "done"} /\ rec > 0) =>
        \A rc \in Coords(rows, cols) :
            qpcr_df[rec].Pos = WellName(rc[1], rc[2]) =>
                /\ ParseRow(WellName(rc[1], rc[2])) = rc[1]
                /\ ParseCol(WellName(rc[1], rc[2])) = rc[2]
                /\ At(cp_array, rc[1], rc[2]) = qpcr_df[rec].Cp

C19_Witness ==
    /\ mpc = "done"
    /\ rows = 16 /\ cols = 24
    /\ rec = 384
    /\ qpcr_df[rec].Pos = <<"P", "2", "4">>
    /\ \A rc \in Coords(16, 24) :
          At(cp_array, rc[1], rc[2]) = Num(rc[1] * 24 + rc[2] + 1)

----------------------------------------------------------------------------
(* Properties of compute_qpcr_concentration                                *)

\* C20: for a negative slope m, an intercept and a positive dilution
\* factor, of any two Cp values the higher one gets the strictly lower
\* concentration.
C20_DecreasingInCp ==
    (cpc = "done" /\ FLt(curve_m, Num(0)) /\ FGt(dil_factor, Num(0))) =>
        \A x, y \in 1..Size(cp_vals) :
            FLt(cp_vals.flat[x], cp_vals.flat[y]) =>
                FLt(qpcr_concentration.flat[y], qpcr_concentration.flat[x])

C20_Witness ==
    /\ cpc = "done"
    /\ curve_m = Rat(-3231, 1000)
    /\ curve_b = Rat(12059, 1000)
    /\ dil_factor = Num(25000)
    /\ cp_vals = Array(1, 2, <<Rat(8828, 1000), Rat(15290, 1000)>>)
    /\ qpcr_concentration = Array(1, 2, <<Num(250), Rat(5, 2)>>)

----------------------------------------------------------------------------
(* The arguments of the core operations                                    *)

\* the matrices and numbers that the caller passed in
Arguments ==
    <<sample_concs, fracs_arg,
      eq_sample_concs, total_vol,
      est_sample_vols, est_sample_concs,
      vol_sample, max_vol_per_well, dest_plate_shape>>

\* C17: no step of compute_shotgun_pooling_values_qpcr (with or without
\* sample_fracs), compute_shotgun_pooling_values_eqvol,
\* estimate_pool_conc_vol or format_pooling_echo_pick_list changes a matrix
\* that the caller passed in, and the array that the allocator returns is
\* none of the caller's arrays.
C17_ArgumentsKept ==
    /\ [][Arguments' = Arguments]_vars
    /\ [](qpc = "done" =>
             /\ qrefs.sample_vols = Fresh
             /\ qrefs.sample_fracs_pass = Fresh
             /\ qrefs.sample_concs_floor = Fresh)

C17_Witness ==
    /\ qpc = "done"
    /\ fracs_arg # None
    /\ sample_fracs = fracs_arg
    /\ sample_fracs_pass # fracs_arg
    /\ sample_concs_floor # sample_concs
    /\ sample_vols.shape = sample_concs.shape

----------------------------------------------------------------------------
(* Properties of the DNA + water normalization                             *)

\* C21: every sample volume lies in [0, target_volume], the water volume is
\* target_volume minus the sample volume, so the two add up to
\* target_volume in every well; a well whose concentration is 0 or NaN
\* gets target_volume of sample and no water, and the call ends without an
\* error.
C21_ConstantWellVolume ==
    npc = "done" =>
        \A x \in 1..Size(dna_concs) :
            /\ FLe(Num(0), dna_vols.flat[x])
            /\ FLe(dna_vols.flat[x], Num(target_volume))
            /\ FAdd(dna_vols.flat[x], water_vols.flat[x]) = Num(target_volume)
            /\ (IsNaN(dna_concs.flat[x]) \/ dna_concs.flat[x] = Num(0)) =>
                   /\ dna_vols.flat[x] = Num(target_volume)
                   /\ water_vols.flat[x] = Num(0)

C21_Witness ==
    /\ npc = "done"
    /\ dna_concs = TestDnaConcs
    /\ dna_vols = Array(2, 2, <<Num(2500), Rat(1265, 2), Num(3500), Num(3500)>>)
    /\ water_vols = Array(2, 2, <<Num(1000), Rat(5735, 2), Num(0), Num(0)>>)

----------------------------------------------------------------------------
(* Two calls of compute_shotgun_pooling_values_qpcr                        *)

\* the enumerated concentration matrices of the shape of sample_concs
OtherConcs ==
    {[shape |-> sample_concs.shape, flat |-> f] :
        f \in [1..Size(sample_concs) -> ConcChoices]}

\* the sum of the target fractions of the wells that the min_conc test
\* keeps, for the concentrations concs and the fractions of the call
PassingSum(concs) ==
    ArraySum(PassMask(IF fracs_arg = None THEN DefaultFracs(concs)
                      ELSE fracs_arg, concs))

----------------------------------------------------------------------------
(* The destination index of format_pooling_echo_pick_list                  *)

\* the sum of the volumes of the wells, among the first n processed, that
\* were assigned the destination index dd
RECURSIVE AssignedTo(_, _)
AssignedTo(dd, n) ==
    IF n = 0 THEN Num(0)
    ELSE IF d_hist[n] = dd
         THEN FAdd(AssignedTo(dd, n - 1), vol_sample.flat[n])
         ELSE AssignedTo(dd, n - 1)

\* C23: for a volume matrix without NaN, after each well the running total
\* is the sum of the volumes of exactly the wells processed so far that
\* were assigned the current destination index.
C23_RunningTotal ==
    (pc # "idle" /\ NoNaN(vol_sample)) =>
        /\ Len(d_hist) = NDone
        /\ running_tot = AssignedTo(d, NDone)

C23_Witness ==
    /\ pc = "done"
    /\ vol_sample = TestVols
    /\ d_hist = <<1, 1, 1, 2, 2, 2>>
    /\ d = 2
    /\ running_tot = Num(25)

\* C24: the destination index of successive wells never decreases and grows
\* by at most 1 from one well to the next; the first well is assigned 1
\* whenever its volume does not exceed max_vol_per_well; the wells of one
\* destination index form one contiguous run and no more destinations are
\* used than there are wells.
C24_IndexSteps ==
    /\ [][d' = d \/ d' = d + 1]_vars
    /\ [](pc # "idle" =>
             /\ \A k \in 1..(Len(d_hist) - 1) :
                   d_hist[k + 1] = d_hist[k] \/ d_hist[k + 1] = d_hist[k] + 1
             /\ (Len(d_hist) > 0
                 /\ FLe(vol_sample.flat[1], max_vol_per_well)) => d_hist[1] = 1
             /\ \A a, c \in 1..Len(d_hist) :
                   (a < c /\ d_hist[a] = d_hist[c]) =>
                       \A x \in a..c : d_hist[x] = d_hist[a]
             /\ Cardinality({d_hist[k] : k \in 1..Len(d_hist)}) <= Len(d_hist))

C24_Witness ==
    /\ pc = "done"
    /\ Len(d_hist) = 4
    /\ d_hist[1] = 1
    /\ d_hist[4] = 3
    /\ d_hist[2] = d_hist[3]

\* C25: on a destination plate with no more rows than columns (16 x 24 by
\* default) two transfers with different destination indices never carry
\* the same destination well label.
C25_LabelPerIndex ==
    (pc # "idle" /\ dest_plate_shape[1] <= dest_plate_shape[2]) =>
        \A a, c \in 1..NDone :
            d_hist[a] # d_hist[c] => Recs[a].dest # Recs[c].dest

C25_Witness ==
    /\ pc = "done"
    /\ vol_sample = RowVols
    /\ dest_plate_shape = <<16, 24>>
    /\ d_hist[1] = 1
    /\ d_hist[24] = 24
    /\ Recs[1].dest = <<"A", "1">>
    /\ Recs[17].dest = <<"B", "1", "7">>
    /\ Recs[24].dest = <<"B", "0">>

----------------------------------------------------------------------------
(* Bounds of the pool concentration                                        *)

\* the pool concentration that estimate_pool_conc_vol computes from the
\* volumes vols and the concentrations concs
PoolConcOf(vols, concs) ==
    PoolConc(ArraySum(NpScale(NpMultiply(concs, vols), nl_scalar)),
             ArraySum(vols))

\* C26: for non-negative volumes with a positive sum and concentrations
\* without NaN, the pool concentration is at least the smallest and at most
\* the largest concentration among the wells with a positive volume, and it
\* does not change with the concentration of a well whose volume is 0.
C26_BetweenMinAndMax ==
    (/\ ppc = "done"
     /\ SameShape
     /\ NoNaN(est_sample_concs)
     /\ FGt(ArraySum(est_sample_vols), Num(0))) =>
        /\ \E k \in 1..Size(est_sample_vols) :
              /\ FGt(est_sample_vols.flat[k], Num(0))
              /\ FLe(est_sample_concs.flat[k], pool_conc)
        /\ \E k \in 1..Size(est_sample_vols) :
              /\ FGt(est_sample_vols.flat[k], Num(0))
              /\ FLe(pool_conc, est_sample_concs.flat[k])
        /\ \A k \in 1..Size(est_sample_vols) :
              est_sample_vols.flat[k] = Num(0) =>
                  \A c \in {Num(0), Num(10), Num(200), Num(1000)} :
                      PoolConcOf(est_sample_vols,
                                 [est_sample_concs EXCEPT !.flat[k] = c])
                          = pool_conc

C26_Witness ==
    /\ ppc = "done"
    /\ est_sample_vols = Array(1, 3, <<Num(0), Num(5), Num(10)>>)
    /\ est_sample_concs = Array(1, 3, <<Num(200), Num(10), Num(200)>>)
    /\ pool_conc = Rat(410, 3)

----------------------------------------------------------------------------
(* Volume against concentration in compute_shotgun_pooling_values_qpcr     *)

\* C27: with the default uniform fractions, of two wells above min_conc the
\* one with the higher concentration never gets the larger volume, and the
\* two get equal volumes exactly when their concentrations raised to
\* floor_conc, max(conc, floor_conc), are equal.
C27_VolumeFallsWithConc ==
    (qpc = "done" /\ fracs_arg = None) =>
        \A a, c \in 1..QN :
            (AboveMin(a) /\ AboveMin(c)) =>
                /\ FGt(Conc(a), Conc(c)) => FLe(Vol(a), Vol(c))
                /\ Vol(a) = Vol(c) <=> FloorAdjusted(a) = FloorAdjusted(c)

C27_Witness ==
    /\ qpc = "done"
    /\ sample_concs = TestConcs
    /\ fracs_arg = None
    /\ sample_vols = Array(2, 3, <<Num(0), Num(50000), Num(6250),
                                   Num(12500), Num(50000), Num(0)>>)

====
